---- MODULE Spec2Model ----
(***************************************************************************)
(* Hybrid relevance-and-answer-resolution engine of RAG_Oncology.          *)
(*                                                                         *)
(*   relevance_check/relevance_check.py   HybridRelevanceChecker           *)
(*   answer_generator/answer_generator.py AnswerGenerator                  *)
(*   helpers/user_memory_manager.py       UserMemoryManager                *)
(*   agent_workflow/workflow.py, nodes.py WorkFlow.process_message, Nodes  *)
(*                                                                         *)
(* Numbers.  Confidences and similarities are floats in the source; here   *)
(* they are integers in hundredths (0.7 is 70).  A combined score is in    *)
(* thousandths: confidence * 0.5 + similarity * 0.3 is                     *)
(* confidence * 5 + similarity * 3, and the threshold 0.6 is 600.          *)
(* Strings are sequences of characters, so that concatenation is real.     *)
(***************************************************************************)
EXTENDS Integers, Sequences, FiniteSets, TLC

VARIABLES
    cache,      \* self._judgment_cache: cache_key -> CacheEntry
    origin,     \* history: cache_key -> the (query, answer) pair the entry was computed for
    now,        \* time.time()
    ticks,      \* number of clock advances so far
    pc,         \* where the check_match / generate call in progress stands
    cm,         \* the locals of the check_match / generate call in progress
    last,       \* history: the last completed public call and what it returned
    th,         \* thread -> the locals of its llm_judge call in progress
    cache2,     \* self._judgment_cache of a second HybridRelevanceChecker
    db,         \* the database behind UserMemoryManager: the user_memories table
    created,    \* history: what each create_memory call returned, and what became of it
    state       \* the conversation state handed to WorkFlow.process_message

vars == <<cache, origin, now, ticks, pc, cm, last, th, cache2, db, created, state>>

----------------------------------------------------------------------------
(* Bounds of the model *)

\* The clock is advanced at most this many times.
MaxTicks == 2

\* The knowledge-base search returns at most this many results (and at most search_k).
MaxResults == 2

\* A query handed to _structure_query alone is at most this many words and phrases long.
MaxQueryLen == 2

\* create_memory is called at most this many times.
MaxCreates == 2

\* process_message is called at most this many times on one state.
MaxTurns == 3

----------------------------------------------------------------------------
(* Program constants *)

\* self.cache_ttl = 3600 (seconds)
cache_ttl == 3600

\* self.judge_threshold = 0.7, in hundredths
judge_threshold == 70

\* self.weights['llm_judge'] = 0.5 and self.weights['similarity'] = 0.3, in tenths
weight_llm_judge == 5
weight_similarity == 3

\* elif best_eval['combined_score'] >= 0.6, in thousandths
partial_threshold == 600

\* best_score = -1, in thousandths
initial_best_score == -1000

\* search_qa(query=query_structure.main_topic, k=5)
search_k == 5

\* 'confidence': 0.7 if relevance_result['status'] == 'partial' else 0.5, and
\* 'confidence': 0.0 of the error record; in thousandths, as the combined
\* score that generate returns as the confidence of a verified answer
confidence_with_context == 700
confidence_cold == 500
confidence_error == 0

----------------------------------------------------------------------------
(* Inputs *)

\* Query texts; "|" occurs in them as in any text.
Queries == { <<"a">>, <<"a", "|", "b">> }

\* The words and phrases of the queries that _structure_query is called with
\* directly: a plain word, and the two phrases of the heuristic in several
\* letter cases.
QueryAlphabet ==
    { "chemo", "like I'm 5", "like i'm 5", "explain to a child", "Explain To A Child" }

\* The query texts that _structure_query is called with directly.
StructQueries == UNION { [1..n -> QueryAlphabet] : n \in 0..MaxQueryLen }

\* The (query, answer) pairs llm_judge is called with directly.
JudgePairs ==
    { << <<"a", "|", "b">>, <<"c">> >>,
      << <<"a">>, <<"b", "|", "c">> >>,
      << <<"a">>, <<"c">> >> }

\* The clock advances by a second or by the length of the TTL.
TickSteps == { 1, cache_ttl }

\* A number as the model's JSON gives it.
Num(v) == [tag |-> "num", v |-> v]
\* JSON's NaN literal, which json.loads accepts.
NaN == [tag |-> "nan", v |-> 0]
\* A value float() rejects (null, a word).
NotANumber == [tag |-> "str", v |-> 0]
\* The key is not in the parsed object.
Missing == [tag |-> "absent", v |-> 0]

\* What the generative model does when asked to judge: it raises, it answers
\* with text that is no JSON, or it answers with a JSON object that has some of
\* the fields judgment, confidence, reason.
NotInvoked == [kind |-> "none", judgment |-> "absent", confidence |-> Missing, reason |-> "absent"]
JsonResp(j, c, r) == [kind |-> "json", judgment |-> j, confidence |-> c, reason |-> r]
JudgeResponses ==
    { [kind |-> "raise", judgment |-> "absent", confidence |-> Missing, reason |-> "absent"],
      [kind |-> "text",  judgment |-> "absent", confidence |-> Missing, reason |-> "absent"],
      JsonResp("relevant",   Missing,    "r"),
      JsonResp("relevant",   NotANumber, "r"),
      JsonResp("absent",     Num(90),    "r"),
      JsonResp("relevant",   Num(70),    "absent"),
      JsonResp("relevant",   Num(170),   "r"),
      JsonResp("irrelevant", Num(0 - 30), "r"),
      JsonResp("relevant",   NaN,        "r") }

----------------------------------------------------------------------------
(* HybridRelevanceChecker.llm_judge *)

\* cache_key = f"{query}|{answer}"
CacheKey(query, answer) == query \o <<"|">> \o answer

\* The keys of the entries of age cache_ttl or more: >= in place of >.
ExpiredKeysAtTTL(c, current_time) ==
    { k \in DOMAIN c : current_time - c[k].timestamp >= cache_ttl }

\* expired_keys = [k ... if current_time - entry.timestamp > self.cache_ttl]
ExpiredKeys(c, current_time) ==
    { k \in DOMAIN c : current_time - c[k].timestamp > cache_ttl }

\* for key in expired_keys: del self._judgment_cache[key]
Purge(c, current_time) ==
    [k \in DOMAIN c \ ExpiredKeys(c, current_time) |-> c[k]]

\* json.loads(answer_text) succeeds and judgment['confidence'] can be read and
\* converted by float(): otherwise the try block raises.
JudgeRaises(resp) ==
    \/ resp.kind = "raise"
    \/ resp.kind = "text"
    \/ resp.confidence.tag = "absent"
    \/ resp.confidence.tag = "str"

\* Python's min(a, b) and max(a, b) on numbers, where every comparison with
\* NaN is false: min keeps a unless b < a, max keeps a unless b > a.
PyLess(a, b) == a.tag = "num" /\ b.tag = "num" /\ a.v < b.v
PyMin(a, b) == IF PyLess(b, a) THEN b ELSE a
PyMax(a, b) == IF PyLess(a, b) THEN b ELSE a
PyInUnit(x) == x.tag = "num" /\ 0 <= x.v /\ x.v <= 100

\* Normalize without the clamp: the value is kept as the model gave it.
NormalizeUnclamped(c) == c

\* if not 0 <= c <= 1: c = max(0.0, min(1.0, c))
Normalize(c) ==
    IF ~PyInUnit(c) THEN PyMax(Num(0), PyMin(Num(100), c)) ELSE c

\* The judgment dict after "Validate and normalize": the parsed object with its
\* confidence replaced; the other fields are as the model gave them.
ParsedJudgment(resp) ==
    [judgment |-> resp.judgment,
     confidence |-> Normalize(resp.confidence).v,
     reason |-> resp.reason]

\* The dict returned by the except branch.
FallbackJudgment ==
    [judgment |-> "irrelevant", confidence |-> 0, reason |-> "Error in judgment"]

\* The cache after the try block: the entry is stored only when nothing raised.
StoreJudgment(c, key, resp, current_time) ==
    IF JudgeRaises(resp)
    THEN c
    ELSE [k \in DOMAIN c \cup {key} |->
            IF k = key
            THEN [judgment |-> ParsedJudgment(resp), timestamp |-> current_time]
            ELSE c[k]]

\* llm_judge(query, answer) at time current_time, resp being what the model
\* does if it is invoked.  The result: the cache afterwards, the judgment
\* returned, and whether the model was invoked.
llm_judge(c, current_time, query, answer, resp) ==
    LET key == CacheKey(query, answer)
        purged == Purge(c, current_time)
    IN  IF key \in DOMAIN purged
        THEN [cache |-> purged, ret |-> purged[key].judgment, invoked |-> FALSE]
        ELSE [cache |-> StoreJudgment(purged, key, resp, current_time),
              ret |-> IF JudgeRaises(resp) THEN FallbackJudgment
                      ELSE ParsedJudgment(resp),
              invoked |-> TRUE]

----------------------------------------------------------------------------
(* HybridRelevanceChecker._structure_query *)

\* str.lower() on one character of the alphabet.
Lower(ch) ==
    CASE ch = "Simple" -> "simple"
      [] ch = "Explain To A Child" -> "explain to a child"
      [] ch = "like I'm 5" -> "like i'm 5"
      [] OTHER -> ch

\* str.lower()
LowerStr(str) == [i \in DOMAIN str |-> Lower(str[i])]

\* needle in str
Contains(str, needle) == \E i \in DOMAIN str : str[i] = needle

\* str.split(needle)[0]: the text before the first occurrence of needle, the
\* whole text when needle does not occur.
SplitFirst(str, needle) ==
    IF Contains(str, needle)
    THEN LET first == CHOOSE i \in DOMAIN str :
                        /\ str[i] = needle
                        /\ \A j \in 1..(i - 1) : str[j] # needle
         IN  SubSeq(str, 1, first - 1)
    ELSE str

\* self.filters = filters or {}: the filters, as the set of the keys set to True.
NoFilters == {}

\* filters={"simplified_language": True, "avoid_technical_terms": True}
ChildFilters == {"simplified_language", "avoid_technical_terms"}

\* QueryStructure(main_topic, explanation_level="standard",
\*                target_audience="general", filters=None)
QueryStructure(main_topic, explanation_level, target_audience, filters) ==
    [main_topic |-> main_topic,
     explanation_level |-> explanation_level,
     target_audience |-> target_audience,
     filters |-> filters]

\* The fallback of both except branches: the heuristic on the query text,
\* then the default structure.
StructureFallback(query) ==
    IF Contains(LowerStr(query), "like I'm 5")
       \/ Contains(LowerStr(query), "explain to a child")
    THEN QueryStructure(
            IF Contains(LowerStr(query), "like I'm 5")
            THEN SplitFirst(query, "like I'm 5")
            ELSE SplitFirst(query, "explain to a child"),
            "child-friendly", "child", ChildFilters)
    ELSE QueryStructure(query, "standard", "general", NoFilters)

\* What the generative model does when asked to structure the query: it
\* raises, or it answers a text: nothing, words that are no JSON, or a JSON
\* object (kind), bare or wrapped in a Markdown code fence with the json tag
\* or without a tag (fence).  The JSON object gives the fields it has.
StructResp(kind, fence, level, audience, has_topic, topic, filters) ==
    [kind |-> kind, fence |-> fence, level |-> level, audience |-> audience,
     has_topic |-> has_topic, topic |-> topic, filters |-> filters]

\* The responses without a fence, the JSON object giving at most its
\* explanation level.
BareResp(kind, level) == StructResp(kind, "none", level, "absent", FALSE, <<>>, NoFilters)

StructResponses ==
    { BareResp("raise", "absent"),
      BareResp("empty", "absent"),
      BareResp("text",  "absent"),
      BareResp("json",  "absent"),
      BareResp("json",  "standard"),
      BareResp("json",  "child-friendly") }

\* The responses wrapped in a code fence: a JSON object with all four
\* fields, one with the level only, and nothing but the fence markers.
FencedResponses ==
    UNION { { StructResp("json", fence, "child-friendly", "child", TRUE, <<"chemo">>, ChildFilters),
              StructResp("json", fence, "detailed", "absent", FALSE, <<>>, NoFilters),
              StructResp("empty", fence, "absent", "absent", FALSE, <<>>, NoFilters) }
            : fence \in {"json", "plain"} }

\* The responses to the direct calls of _structure_query.
StructCallResponses ==
    StructResponses
        \cup FencedResponses
        \cup { StructResp("json", "none", "child-friendly", "child", TRUE, <<"chemo">>, ChildFilters) }

\* response.content.strip() as a sequence of pieces of text: the fence
\* markers (three backquotes, written "[fence]", with or without the tag
\* json), the JSON object "{}", words.
AnswerText(sresp) ==
    LET body == CASE sresp.kind = "json" -> << "{}" >>
                  [] sresp.kind = "text" -> << "words" >>
                  [] OTHER -> << >>
    IN  CASE sresp.fence = "json"  -> << "[fence]json" >> \o body \o << "[fence]" >>
          [] sresp.fence = "plain" -> << "[fence]" >> \o body \o << "[fence]" >>
          [] OTHER -> body

\* The positions of the pieces that contain the separator: the bare marker
\* is also found at the start of the tagged one.
Occurrences(text, sep) ==
    { i \in DOMAIN text : text[i] = sep \/ (sep = "[fence]" /\ text[i] = "[fence]json") }

\* text.split(sep)[0]
SplitHead(text, sep) ==
    IF Occurrences(text, sep) = {} THEN text
    ELSE LET first == CHOOSE i \in Occurrences(text, sep) :
                        \A j \in Occurrences(text, sep) : i <= j
         IN  SubSeq(text, 1, first - 1)

\* text.split(sep)[1], for a text in which sep occurs
SplitSecond(text, sep) ==
    LET first == CHOOSE i \in Occurrences(text, sep) :
                    \A j \in Occurrences(text, sep) : i <= j
    IN  SplitHead(SubSeq(text, first + 1, Len(text)), sep)

\* The two if statements of lines 66-69 and the strip of line 70.
StripFence(text) ==
    LET after_tag == IF Occurrences(text, "[fence]json") # {}
                     THEN SplitSecond(text, "[fence]json") ELSE text
    IN  IF Occurrences(after_tag, "[fence]") # {}
        THEN SplitHead(after_tag, "[fence]") ELSE after_tag

\* The structure built from the parsed JSON object, each field with its
\* default: structure.get('main_topic', query), ...
ParsedStructure(query, sresp) ==
    QueryStructure(IF sresp.has_topic THEN sresp.topic ELSE query,
                   IF sresp.level = "absent" THEN "standard" ELSE sresp.level,
                   IF sresp.audience = "absent" THEN "general" ELSE sresp.audience,
                   sresp.filters)

\* _structure_query(query), sresp being what the model does.
structure_query(query, sresp) ==
    IF sresp.kind = "raise" THEN StructureFallback(query)
    ELSE IF StripFence(AnswerText(sresp)) = << >>
    THEN QueryStructure(query, "standard", "general", NoFilters)
    ELSE IF StripFence(AnswerText(sresp)) = << "{}" >>
    THEN ParsedStructure(query, sresp)
    ELSE StructureFallback(query)

----------------------------------------------------------------------------
(* HybridRelevanceChecker.check_match *)

\* The knowledge base: the (question, answer) entries the search can return.
KnowledgeBase ==
    { [question |-> "q1", answer |-> <<"c">>],
      [question |-> "q2", answer |-> <<"x", "Simple">>] }

\* What search_qa can return: an ordered sequence of at most search_k entries, empty
\* on no results or on failure.
SearchResults ==
    UNION { [1..n -> KnowledgeBase] : n \in 0..(IF MaxResults < search_k THEN MaxResults ELSE search_k) }

\* What the embedding model gives for one candidate: the cosine similarity of
\* query and candidate question, in hundredths.
Similarities == { 0 - 100, 50, 90, 99, 100 }

\* What the generative model does when asked to judge one candidate.
CandidateResponses ==
    { [kind |-> "raise", judgment |-> "absent", confidence |-> Missing, reason |-> "absent"],
      JsonResp("absent",     Num(90),  "r"),
      JsonResp("relevant",   Num(70),  "r"),
      JsonResp("relevant",   Num(60),  "r"),
      JsonResp("relevant",   Num(69),  "r"),
      JsonResp("relevant",   Num(85),  "r"),
      JsonResp("irrelevant", Num(40),  "r"),
      JsonResp("irrelevant", Num(60),  "r"),
      JsonResp("irrelevant", Num(170), "r") }

\* any(term in r.get('answer', '').lower() for term in [...])
MarkerPhrases == { "simple", "easy to understand", "like a", "similar to" }
HasMarker(answer) == \E term \in MarkerPhrases : Contains(LowerStr(answer), term)

\* The list left as the search returned it, whatever the explanation level.
FilterResultsKeepAll(explanation_level, rag_results) == rag_results

\* if query_structure.explanation_level == "child-friendly": rag_results = [...]
FilterResults(explanation_level, rag_results) ==
    IF explanation_level = "child-friendly"
    THEN SelectSeq(rag_results, LAMBDA r : HasMarker(r.answer))
    ELSE rag_results

\* The score with the entailment weight 0.2 applied to the similarity as well.
CombinedScoreWithEntailment(confidence, similarity) ==
    confidence * weight_llm_judge + similarity * weight_similarity + similarity * 2

\* score = llm_judgment['confidence'] * weights['llm_judge'] + similarity * weights['similarity']
CombinedScore(confidence, similarity) ==
    confidence * weight_llm_judge + similarity * weight_similarity

NoEval == [some |-> FALSE]

\* The comparison with >= in place of >: a later candidate wins a tie.
IsBetterOrEqual(score, best_score) == score >= best_score

\* The comparison left out: every evaluated candidate replaces the best.
IsBetterAlways(score, best_score) == TRUE

\* if score > best_score: best_score = score; best_eval = {...}
IsBetter(score, best_score) == score > best_score

\* The evaluation record of one candidate.
Evaluation(result, llm_judgment, similarity) ==
    [some |-> TRUE,
     candidate |-> result,
     llm_judge |-> llm_judgment,
     similarity |-> similarity,
     combined_score |-> CombinedScore(llm_judgment.confidence, similarity)]

\* best_eval['llm_judge']['judgment'] raises KeyError when the judgment has
\* no such field.
ClassifyRaises(best_eval) == best_eval.llm_judge.judgment = "absent"

\* The classification without its first branch: the score alone decides.
ClassifyByScore(best_eval) ==
    IF best_eval.combined_score >= partial_threshold THEN "partial" ELSE "no_match"

\* The classification with the verdict alone, whatever the confidence.
ClassifyByVerdict(best_eval) ==
    IF best_eval.llm_judge.judgment = "relevant"
    THEN "relevant"
    ELSE IF best_eval.combined_score >= partial_threshold
         THEN "partial"
         ELSE "no_match"

\* if judgment == 'relevant' and confidence >= judge_threshold: 'relevant'
\* elif combined_score >= 0.6: 'partial'  else: 'no_match'
Classify(best_eval) ==
    IF best_eval.llm_judge.judgment = "relevant"
       /\ best_eval.llm_judge.confidence >= judge_threshold
    THEN "relevant"
    ELSE IF best_eval.combined_score >= partial_threshold
         THEN "partial"
         ELSE "no_match"

NoMatchData == [present |-> FALSE]

\* {'status': 'no_match', 'match_data': None}
NoMatch == [status |-> "no_match", match_data |-> NoMatchData]

\* 'match_data': {...} of the final return
MatchData(best_eval) ==
    [present |-> TRUE,
     answer |-> best_eval.candidate.answer,
     question |-> best_eval.candidate.question,
     confidence |-> best_eval.combined_score,
     metrics |-> [llm_judge |-> best_eval.llm_judge,
                  similarity |-> best_eval.similarity]]

\* An exception leaves the function.
Raised == [status |-> "raised", match_data |-> NoMatchData]

\* The body of the outer try once the loop is over.
CheckMatchBody(empty_search, best_eval) ==
    IF empty_search THEN NoMatch
    ELSE IF ~best_eval.some THEN NoMatch
    ELSE IF ClassifyRaises(best_eval) THEN Raised
    ELSE [status |-> Classify(best_eval), match_data |-> MatchData(best_eval)]

\* check_match without its outer except: the exception goes to the caller.
CheckMatchResultUncaught(empty_search, best_eval) ==
    CheckMatchBody(empty_search, best_eval)

\* What check_match returns:
\* except Exception: return {'status': 'no_match', 'match_data': None}
CheckMatchResult(empty_search, best_eval) ==
    IF CheckMatchBody(empty_search, best_eval).status = "raised"
    THEN NoMatch
    ELSE CheckMatchBody(empty_search, best_eval)

----------------------------------------------------------------------------
(* AnswerGenerator.generate *)

\* What the generative model does when asked for the fallback answer.
GenerateResponses == { "raise", "text" }

\* The context appended after the question in place of inserted before it.
MessagesContextLast(query, relevance_result) ==
    IF relevance_result.status = "partial"
    THEN << [role |-> "system", text |-> <<"expert">>],
            [role |-> "human", text |-> query],
            [role |-> "context", text |-> relevance_result.match_data.answer] >>
    ELSE << [role |-> "system", text |-> <<"expert">>],
            [role |-> "human", text |-> query] >>

\* The messages sent to the model: the system message, the context when the
\* status is partial (messages.insert(1, ...)), the user's question.
Messages(query, relevance_result) ==
    IF relevance_result.status = "partial"
    THEN << [role |-> "system", text |-> <<"expert">>],
            [role |-> "context", text |-> relevance_result.match_data.answer],
            [role |-> "human", text |-> query] >>
    ELSE << [role |-> "system", text |-> <<"expert">>],
            [role |-> "human", text |-> query] >>

\* The two confidences the wrong way round.
GeneratedConfidenceSwapped(relevance_result) ==
    IF relevance_result.status = "partial"
    THEN confidence_cold
    ELSE confidence_with_context

\* 'confidence': 0.7 if relevance_result['status'] == 'partial' else 0.5
GeneratedConfidence(relevance_result) ==
    IF relevance_result.status = "partial"
    THEN confidence_with_context
    ELSE confidence_cold

\* The record returned without the optional key metrics.
NoMetrics == [llm_judge |-> FallbackJudgment, similarity |-> 0]

\* An exception leaves generate: there is no record.
GenerateRaised ==
    [answer |-> [kind |-> "none", text |-> <<>>],
     source |-> "raised",
     confidence |-> 0,
     has_metrics |-> FALSE,
     metrics |-> NoMetrics,
     invoked |-> FALSE]

\* The statements of generate outside its try raise: check_match raised, or
\* relevance_result['match_data']['answer'] is read while match_data is None.
GenerateRaises(relevance_result) ==
    \/ relevance_result.status = "raised"
    \/ /\ relevance_result.status \in {"relevant", "partial"}
       /\ ~relevance_result.match_data.present

\* generate without its try: a raising model call leaves the function.
GenerateResultNoCatch(query, relevance_result, gresp) ==
    IF GenerateRaises(relevance_result)
    THEN GenerateRaised
    ELSE IF relevance_result.status = "relevant"
    THEN [answer |-> [kind |-> "kb", text |-> relevance_result.match_data.answer],
          source |-> "verified_answer",
          confidence |-> relevance_result.match_data.confidence,
          has_metrics |-> TRUE,
          metrics |-> relevance_result.match_data.metrics,
          invoked |-> FALSE]
    ELSE IF gresp = "raise"
    THEN [GenerateRaised EXCEPT !.invoked = TRUE]
    ELSE [answer |-> [kind |-> "llm", text |-> <<>>],
          source |-> "llm_generated",
          confidence |-> GeneratedConfidence(relevance_result),
          has_metrics |-> FALSE,
          metrics |-> NoMetrics,
          invoked |-> TRUE]

\* generate without its first branch: the model is asked whatever the status.
GenerateResultAsksModel(query, relevance_result, gresp) ==
    IF GenerateRaises(relevance_result)
    THEN GenerateRaised
    ELSE [answer |-> [kind |-> IF gresp = "raise" THEN "apology" ELSE "llm", text |-> <<>>],
          source |-> IF gresp = "raise" THEN "error" ELSE "llm_generated",
          confidence |-> IF gresp = "raise" THEN confidence_error
                         ELSE GeneratedConfidence(relevance_result),
          has_metrics |-> FALSE,
          metrics |-> NoMetrics,
          invoked |-> TRUE]

\* What generate returns, gresp being what the model does if it is invoked.
GenerateResult(query, relevance_result, gresp) ==
    IF GenerateRaises(relevance_result)
    THEN GenerateRaised
    ELSE IF relevance_result.status = "relevant"
    THEN [answer |-> [kind |-> "kb", text |-> relevance_result.match_data.answer],
          source |-> "verified_answer",
          confidence |-> relevance_result.match_data.confidence,
          has_metrics |-> TRUE,
          metrics |-> relevance_result.match_data.metrics,
          invoked |-> FALSE]
    ELSE IF gresp = "raise"
    THEN [answer |-> [kind |-> "apology", text |-> <<>>],
          source |-> "error",
          confidence |-> confidence_error,
          has_metrics |-> FALSE,
          metrics |-> NoMetrics,
          invoked |-> TRUE]
    ELSE [answer |-> [kind |-> "llm", text |-> <<>>],
          source |-> "llm_generated",
          confidence |-> GeneratedConfidence(relevance_result),
          has_metrics |-> FALSE,
          metrics |-> NoMetrics,
          invoked |-> TRUE]

----------------------------------------------------------------------------
(* History kept for the properties *)

\* origin after a call: the pair each entry of the cache was computed for.
OriginAfter(o, r, query, answer) ==
    [k \in DOMAIN r.cache |->
        IF r.invoked /\ k = CacheKey(query, answer) THEN <<query, answer>> ELSE o[k]]

----------------------------------------------------------------------------
(* The call frame of check_match *)

NoFrame == [via |-> "none"]

\* history: the calls made so far to the collaborators, when the loop starts:
\* self._structure_query(query) has called self.llm once, search_qa was
\* called once.
CallsBeforeLoop == [structure |-> 1, search |-> 1, judge |-> 0]

\* The model calls of one llm_judge call that answers every failure by
\* calling the model a second time.
JudgeCallsRetried(invoked) == IF invoked THEN 2 ELSE 0

\* The model calls of one llm_judge call: one on a miss, none on a hit.
JudgeCalls(invoked) == IF invoked THEN 1 ELSE 0

\* The locals after the lines before the loop: the structure, the search
\* results, the filtered list, best_eval = None and best_score = -1.
Frame(via, query, sresp, results) ==
    [via |-> via,
     query |-> query,
     structure |-> structure_query(query, sresp),
     search_results |-> results,
     empty_search |-> (results = <<>>),
     rag_results |-> FilterResults(structure_query(query, sresp).explanation_level, results),
     i |-> 1,
     best_eval |-> NoEval,
     best_score |-> initial_best_score,
     evals |-> <<>>,
     calls |-> CallsBeforeLoop,
     relevance_result |-> NoMatch]

\* The locals after one pass of the loop in which nothing raised.
FrameAfterEval(f, ev, invoked) ==
    [f EXCEPT
        !.i = f.i + 1,
        !.best_eval = IF IsBetter(ev.combined_score, f.best_score) THEN ev ELSE f.best_eval,
        !.best_score = IF IsBetter(ev.combined_score, f.best_score)
                       THEN ev.combined_score ELSE f.best_score,
        !.evals = Append(f.evals, [ok |-> TRUE, score |-> ev.combined_score,
                                   judgment |-> ev.llm_judge, invoked |-> invoked]),
        !.calls.judge = f.calls.judge + JudgeCalls(invoked)]

\* The locals after a pass of the loop that raised: except ...: continue
FrameAfterFailure(f) ==
    [f EXCEPT
        !.i = f.i + 1,
        !.evals = Append(f.evals, [ok |-> FALSE, score |-> 0,
                                   judgment |-> FallbackJudgment, invoked |-> FALSE])]

----------------------------------------------------------------------------
(* Threads calling llm_judge of one checker *)

\* The threads that call llm_judge of the same checker.
NumThreads == 2
Threads == 1..NumThreads

\* The (query, answer) pairs of the concurrent calls, and what the model does.
ConcPairs ==
    { << <<"a">>, <<"c">> >>,
      << <<"a">>, <<"b", "|", "c">> >> }
ConcResponses ==
    { [kind |-> "raise", judgment |-> "absent", confidence |-> Missing, reason |-> "absent"],
      JsonResp("relevant", Num(70), "r") }

\* A thread that is not inside llm_judge.
IdleThread ==
    [pc |-> "idle", query |-> <<>>, answer |-> <<>>, current_time |-> 0,
     used |-> 0, expired |-> {}]

\* cache_key and current_time are taken, and the list comprehension creates
\* its iterator over self._judgment_cache.items(), which notes the size of
\* the dict.
ThreadEntered(query, answer, current_time, c) ==
    [pc |-> "scan", query |-> query, answer |-> answer, current_time |-> current_time,
     used |-> Cardinality(DOMAIN c), expired |-> {}]

\* The iteration of the list comprehension: over an empty dict it ends at
\* once; otherwise a next() that finds the size of the dict changed raises
\* RuntimeError (dictionary changed size during iteration), and the
\* iteration gives the expired keys.
ScanRaises(f, c) == f.used > 0 /\ Cardinality(DOMAIN c) # f.used
ThreadScanned(f, c) ==
    IF ScanRaises(f, c)
    THEN [f EXCEPT !.pc = "raised"]
    ELSE [f EXCEPT !.pc = "purge",
                   !.expired = IF f.used = 0 THEN {} ELSE ExpiredKeys(c, f.current_time)]

\* del self._judgment_cache[key]
DeleteKey(c, key) == [k \in DOMAIN c \ {key} |-> c[k]]

----------------------------------------------------------------------------
(* UserMemoryManager and the user_memories table *)

\* None, among the strings that are names and descriptions.
PyNone == "None"

\* The name and description arguments: None or a text, the empty text too.
Names == { PyNone, "Ali" }
Descriptions == { PyNone, "" }

\* The ids the calls are made with: those given so far and one never given.
MemoryIds == 1..(MaxCreates + 1)

\* How the database gives the id of a new row to the column
\* id = Column(Integer, primary_key=True): as one more than the largest id
\* stored (an integer primary key that is the row id), or from a sequence.
Engines == { "rowid", "sequence" }

\* The database before init_db().
NoDb == [engine |-> "none", rows |-> <<>>, seq |-> 0]

\* One row without its key: name and description, both nullable.
Row(name, description) == [name |-> name, description |-> description]

\* UserMemory.to_dict()
ToDict(id, row) == [id |-> id, name |-> row.name, description |-> row.description]

\* The return value None of get_memory and update_memory; no row has id 0.
NoRecord == [id |-> 0, name |-> PyNone, description |-> PyNone]

\* The largest element of a set of ids, 0 for the empty set.
MaxOf(S) == IF S = {} THEN 0 ELSE CHOOSE m \in S : \A x \in S : x <= m

\* Every new row given the id 1.
NextIdAlwaysOne(d) == 1

\* The id the database gives to the row that session.add / commit inserts.
NextId(d) ==
    IF d.engine = "rowid" THEN MaxOf(DOMAIN d.rows) + 1 ELSE d.seq + 1

\* rows with the row of id put or replaced.
PutRow(rows, id, row) ==
    [i \in DOMAIN rows \cup {id} |-> IF i = id THEN row ELSE rows[i]]

\* rows without the row of id: session.delete(memory); session.commit()
RemoveRow(rows, id) == [i \in DOMAIN rows \ {id} |-> rows[i]]

\* create_memory(name, description): add, commit, refresh, to_dict.
create_memory(d, name, description) ==
    [db |-> [d EXCEPT !.rows = PutRow(d.rows, NextId(d), Row(name, description)),
                      !.seq = IF d.engine = "sequence" THEN NextId(d) ELSE d.seq],
     ret |-> ToDict(NextId(d), Row(name, description))]

\* get_memory(memory_id): memory.to_dict() if memory else None
get_memory(d, memory_id) ==
    IF memory_id \in DOMAIN d.rows
    THEN ToDict(memory_id, d.rows[memory_id])
    ELSE NoRecord

\* The field set whenever the argument is truthy: "" leaves it as it is.
UpdatedFieldIfTruthy(old, arg) == IF arg # PyNone /\ arg # "" THEN arg ELSE old

\* if name is not None: memory.name = name   (and the same for description)
UpdatedField(old, arg) == IF arg # PyNone THEN arg ELSE old

\* The row after update_memory's two assignments.
UpdatedRow(row, name, description) ==
    Row(UpdatedField(row.name, name), UpdatedField(row.description, description))

\* update_memory(memory_id, name, description)
update_memory(d, memory_id, name, description) ==
    IF memory_id \in DOMAIN d.rows
    THEN [db |-> [d EXCEPT !.rows = PutRow(d.rows, memory_id,
                                           UpdatedRow(d.rows[memory_id], name, description))],
          ret |-> ToDict(memory_id, UpdatedRow(d.rows[memory_id], name, description))]
    ELSE [db |-> d, ret |-> NoRecord]

\* delete_memory that reports True whether or not it found the row.
delete_memory_always_true(d, memory_id) ==
    [db |-> [d EXCEPT !.rows = RemoveRow(d.rows, memory_id)], ret |-> TRUE]

\* delete_memory(memory_id)
delete_memory(d, memory_id) ==
    IF memory_id \in DOMAIN d.rows
    THEN [db |-> [d EXCEPT !.rows = RemoveRow(d.rows, memory_id)], ret |-> TRUE]
    ELSE [db |-> d, ret |-> FALSE]

\* created after a create_memory call that returned ret.
CreatedAfterCreate(c, ret) ==
    Append(c, [ret |-> ret, intact |-> TRUE, stored |-> TRUE])

\* created after update_memory (deleted = FALSE) or delete_memory
\* (deleted = TRUE) was applied to memory_id.
CreatedAfterChange(c, memory_id, deleted) ==
    [i \in DOMAIN c |->
        IF c[i].ret.id = memory_id
        THEN [c[i] EXCEPT !.intact = FALSE,
                          !.stored = IF deleted THEN FALSE ELSE c[i].stored]
        ELSE c[i]]

----------------------------------------------------------------------------
(* WorkFlow.process_message and the nodes user and agent *)

\* self.privacy_keywords
privacy_keywords == { "personal", "private", "confidential", "sensitive" }

\* What process_message is called with: a text, or a value that is no text
\* (None), for which HumanMessage(content=message) raises.
ChatInputs ==
    { [is_text |-> FALSE, text |-> << >>],
      [is_text |-> TRUE,  text |-> << >>],
      [is_text |-> TRUE,  text |-> << " " >>],
      [is_text |-> TRUE,  text |-> << "a" >>],
      [is_text |-> TRUE,  text |-> << "private", "a" >>] }

\* What check_match finds for the message inside generate: no match, or a
\* relevant entry of the knowledge base.
ChatRelevance ==
    { NoMatch,
      [status |-> "relevant",
       match_data |-> MatchData(Evaluation([question |-> "q1", answer |-> <<"c">>],
                                           [judgment |-> "relevant", confidence |-> 85,
                                            reason |-> "r"],
                                           90))] }

\* HumanMessage(content=text); at is history: the process_message call
\* during which the message was made.
HumanMessage(text, at) == [role |-> "human", text |-> text, answer_of |-> 0, at |-> at]

\* AIMessage(content=text); answer_of is history: the turn whose generate
\* call computed the text, 0 for the fixed apologies.
AIMessage(text, answer_of, at) ==
    [role |-> "ai", text |-> text, answer_of |-> answer_of, at |-> at]

\* The fixed texts of the nodes and of process_message.
DidntCatch == << "I didn't catch that" >>
UserApology == << "I apologize, but I encountered an error" >>
AgentApology == << "I apologize, but I couldn't process your question" >>
ProcessApology == << "I encountered an error" >>

\* not user_input.strip()
IsBlank(text) == \A i \in DOMAIN text : text[i] = " "

\* _sanitize_input(text): text.replace(keyword, '[REDACTED]') for the
\* keywords found in the text.
SanitizeInput(text) ==
    [i \in DOMAIN text |-> IF text[i] \in privacy_keywords THEN "[REDACTED]" ELSE text[i]]

\* answer_result['answer'] as a text.
Content(answer) ==
    CASE answer.kind = "kb" -> answer.text
      [] answer.kind = "llm" -> << "generated" >>
      [] OTHER -> << "apology" >>

\* state.get('answer_result', {}) when the key is not there.
NoAnswerResult == [some |-> FALSE]

\* new_state(), with the keys the nodes add later at their defaults; turns
\* is history: the number of process_message calls so far.
NewState ==
    [messages |-> << >>,
     should_continue |-> TRUE,
     error_state |-> FALSE,
     answer_result |-> NoAnswerResult,
     relevance_checks |-> << >>,
     turns |-> 0]

\* The user node returning the state with error_state cleared.
user_resets(st, relevance_result, gresp) ==
    [same |-> TRUE, state |-> [st EXCEPT !.error_state = FALSE], messages |-> st.messages]

\* Nodes.user(state): same tells whether the dictionary returned is the
\* state itself, changed in place, or a new one with the key messages only.
user(st, relevance_result, gresp) ==
    IF \/ st.messages = << >>
       \/ st.messages[Len(st.messages)].role # "human"
       \/ IsBlank(st.messages[Len(st.messages)].text)
    THEN [same |-> FALSE, state |-> st, messages |-> << HumanMessage(DidntCatch, st.turns) >>]
    ELSE LET sanitized_input == SanitizeInput(st.messages[Len(st.messages)].text)
             answer_result == GenerateResult(sanitized_input, relevance_result, gresp)
         IN  IF answer_result.source = "raised"
             THEN [same |-> TRUE,
                   state |-> [st EXCEPT !.error_state = TRUE,
                                        !.messages = Append(@, AIMessage(UserApology, 0, st.turns))],
                   messages |-> Append(st.messages, AIMessage(UserApology, 0, st.turns))]
             ELSE [same |-> TRUE,
                   state |-> [st EXCEPT
                                !.answer_result = [some |-> TRUE, turn |-> st.turns,
                                                   ret |-> answer_result],
                                !.relevance_checks =
                                    Append(@, [query |-> sanitized_input,
                                               status |-> answer_result.source,
                                               confidence |-> answer_result.confidence])],
                   messages |-> st.messages]

\* state.update(result): the keys of the returned dictionary replace those
\* of the state.
StateUpdate(result) ==
    IF result.same THEN result.state
    ELSE [result.state EXCEPT !.messages = result.messages]

\* Nodes.agent(state)
agent(st) ==
    IF st.error_state
    THEN st
    ELSE IF ~st.answer_result.some
    THEN [st EXCEPT !.error_state = TRUE,
                    !.messages = Append(@, AIMessage(AgentApology, 0, st.turns))]
    ELSE [st EXCEPT !.messages =
                        Append(@, AIMessage(SanitizeInput(Content(st.answer_result.ret.answer)),
                                            st.answer_result.turn, st.turns))]

\* WorkFlow.process_message(state, message), relevance_result and gresp
\* being what the search and the generative model do inside generate.
process_message(st, message, relevance_result, gresp) ==
    IF ~message.is_text
    THEN [st EXCEPT !.turns = @ + 1,
                    !.messages = Append(@, AIMessage(ProcessApology, 0, st.turns + 1)),
                    !.error_state = TRUE]
    ELSE LET appended == [st EXCEPT !.turns = @ + 1,
                                    !.messages = Append(@, HumanMessage(message.text, st.turns + 1))]
             after_user == StateUpdate(user(appended, relevance_result, gresp))
         IN  IF after_user.error_state THEN after_user ELSE agent(after_user)

\* finalize_state(state), called by _final_state_wrapper.
finalize_state(st) == [st EXCEPT !.should_continue = FALSE]

----------------------------------------------------------------------------
(* Actions *)

Init ==
    /\ cache = <<>>
    /\ origin = <<>>
    /\ now = 0
    /\ ticks = 0
    /\ pc = "idle"
    /\ cm = NoFrame
    /\ last = [op |-> "none"]
    /\ th = [t \in Threads |-> IdleThread]
    /\ cache2 = <<>>
    /\ db = NoDb
    /\ created = <<>>
    /\ state = NewState

\* Time passes between calls.
Tick ==
    /\ ticks < MaxTicks
    /\ \E d \in TickSteps : now' = now + d
    /\ ticks' = ticks + 1
    /\ UNCHANGED <<cache, origin, pc, cm, last, th, cache2, db, created, state>>

\* A call of llm_judge(query, answer).
LlmJudgeCall ==
    /\ pc = "idle"
    /\ \E p \in JudgePairs, resp \in JudgeResponses :
        LET r == llm_judge(cache, now, p[1], p[2], resp)
        IN
            /\ cache' = r.cache
            /\ origin' = OriginAfter(origin, r, p[1], p[2])
            /\ last' = [op |-> "llm_judge", query |-> p[1], answer |-> p[2],
                        t |-> now, resp |-> IF r.invoked THEN resp ELSE NotInvoked,
                        ret |-> r.ret,
                        invoked |-> r.invoked,
                        src |-> IF r.invoked THEN p ELSE origin[CacheKey(p[1], p[2])]]
            /\ UNCHANGED <<now, ticks, pc, cm, th, cache2, db, created, state>>

\* check_match(query) is called and runs up to its loop.
CheckMatchCall ==
    /\ pc = "idle"
    /\ \E query \in Queries, sresp \in StructResponses, results \in SearchResults :
            cm' = Frame("check_match", query, sresp, results)
    /\ pc' = "loop"
    /\ UNCHANGED <<cache, origin, now, ticks, last, th, cache2, db, created, state>>

\* generate(query) is called: it calls check_match, which runs up to its loop.
GenerateCall ==
    /\ pc = "idle"
    /\ \E query \in Queries, sresp \in StructResponses, results \in SearchResults :
            cm' = Frame("generate", query, sresp, results)
    /\ pc' = "loop"
    /\ UNCHANGED <<cache, origin, now, ticks, last, th, cache2, db, created, state>>

\* One pass of the loop: the similarity, the judgment, the score, the best.
EvalCandidate ==
    /\ pc = "loop"
    /\ ~cm.empty_search
    /\ cm.i <= Len(cm.rag_results)
    /\ \E similarity \in Similarities, resp \in CandidateResponses :
            LET result == cm.rag_results[cm.i]
                r == llm_judge(cache, now, cm.query, result.answer, resp)
            IN
                /\ cache' = r.cache
                /\ origin' = OriginAfter(origin, r, cm.query, result.answer)
                /\ cm' = FrameAfterEval(cm, Evaluation(result, r.ret, similarity), r.invoked)
    /\ UNCHANGED <<now, ticks, pc, last, th, cache2, db, created, state>>

\* One pass of the loop in which the similarity computation raises.
EvalCandidateFails ==
    /\ pc = "loop"
    /\ ~cm.empty_search
    /\ cm.i <= Len(cm.rag_results)
    /\ cm' = FrameAfterFailure(cm)
    /\ UNCHANGED <<cache, origin, now, ticks, pc, last, th, cache2, db, created, state>>

\* The call record of a check_match that has returned.
CheckMatchRecord(f, ret) ==
    [op |-> "check_match", query |-> f.query, structure |-> f.structure,
     search_results |-> f.search_results, rag_results |-> f.rag_results,
     evals |-> f.evals, best_eval |-> f.best_eval, calls |-> f.calls, ret |-> ret]

\* The loop is over (or the search gave nothing): check_match returns.
CheckMatchReturn ==
    /\ pc = "loop"
    /\ cm.empty_search \/ cm.i > Len(cm.rag_results)
    /\ LET ret == CheckMatchResult(cm.empty_search, cm.best_eval)
       IN
           IF cm.via = "check_match"
           THEN /\ last' = CheckMatchRecord(cm, ret)
                /\ cm' = NoFrame
                /\ pc' = "done"
           ELSE /\ cm' = [cm EXCEPT !.relevance_result = ret]
                /\ pc' = "answer"
                /\ last' = last
    /\ UNCHANGED <<cache, origin, now, ticks, th, cache2, db, created, state>>

\* The rest of generate: the verified answer, or the generative model.
GenerateAnswer ==
    /\ pc = "answer"
    /\ \E gresp \in GenerateResponses :
            last' = [op |-> "generate", query |-> cm.query, gresp |-> gresp,
                     check |-> CheckMatchRecord(cm, cm.relevance_result),
                     messages |-> Messages(cm.query, cm.relevance_result),
                     generate_calls |->
                        IF GenerateResult(cm.query, cm.relevance_result, gresp).invoked
                        THEN 1 ELSE 0,
                     ret |-> GenerateResult(cm.query, cm.relevance_result, gresp)]
    /\ cm' = NoFrame
    /\ pc' = "done"
    /\ UNCHANGED <<cache, origin, now, ticks, th, cache2, db, created, state>>

\* A call of _structure_query(query).
StructureQueryCall ==
    /\ pc = "idle"
    /\ \E query \in StructQueries, sresp \in StructCallResponses :
            last' = [op |-> "structure_query", query |-> query, sresp |-> sresp,
                     ret |-> structure_query(query, sresp)]
    /\ UNCHANGED <<cache, origin, now, ticks, pc, cm, th, cache2, db, created, state>>

\* Thread t enters llm_judge: lines 111-115 up to the creation of the iterator.
JudgeEnter(t) ==
    /\ th[t].pc = "idle"
    /\ \E p \in ConcPairs :
            th' = [th EXCEPT ![t] = ThreadEntered(p[1], p[2], now, cache)]
    /\ UNCHANGED <<cache, origin, now, ticks, pc, cm, last, cache2, db, created, state>>

\* Thread t runs the list comprehension of lines 115-116.
JudgeScan(t) ==
    /\ th[t].pc = "scan"
    /\ th' = [th EXCEPT ![t] = ThreadScanned(th[t], cache)]
    /\ UNCHANGED <<cache, origin, now, ticks, pc, cm, last, cache2, db, created, state>>

\* Thread t deletes one expired key (lines 117-118); the del raises KeyError
\* when the key is no longer in the dict.
JudgePurge(t) ==
    /\ th[t].pc = "purge"
    /\ th[t].expired # {}
    /\ \E key \in th[t].expired :
            IF key \in DOMAIN cache
            THEN /\ cache' = DeleteKey(cache, key)
                 /\ th' = [th EXCEPT ![t].expired = th[t].expired \ {key}]
            ELSE /\ cache' = cache
                 /\ th' = [th EXCEPT ![t].pc = "raised"]
    /\ UNCHANGED <<origin, now, ticks, pc, cm, last, cache2, db, created, state>>

\* Thread t tests cache_key in self._judgment_cache (line 120).
JudgeLookup(t) ==
    /\ th[t].pc = "purge"
    /\ th[t].expired = {}
    /\ th' = [th EXCEPT ![t].pc =
                IF CacheKey(th[t].query, th[t].answer) \in DOMAIN cache
                THEN "hit" ELSE "call"]
    /\ UNCHANGED <<cache, origin, now, ticks, pc, cm, last, cache2, db, created, state>>

\* Thread t reads self._judgment_cache[cache_key] (line 121); the read
\* raises KeyError when the key is no longer in the dict.
JudgeHit(t) ==
    /\ th[t].pc = "hit"
    /\ th' = [th EXCEPT ![t].pc =
                IF CacheKey(th[t].query, th[t].answer) \in DOMAIN cache
                THEN "done" ELSE "raised"]
    /\ UNCHANGED <<cache, origin, now, ticks, pc, cm, last, cache2, db, created, state>>

\* Thread t runs the try block (lines 125-143): the model call, the parse,
\* the store of line 135 under the current_time taken at entry.
JudgeCallModel(t) ==
    /\ th[t].pc = "call"
    /\ \E resp \in ConcResponses :
            cache' = StoreJudgment(cache, CacheKey(th[t].query, th[t].answer),
                                   resp, th[t].current_time)
    /\ th' = [th EXCEPT ![t].pc = "done"]
    /\ UNCHANGED <<origin, now, ticks, pc, cm, last, cache2, db, created, state>>

\* Thread t leaves llm_judge, with a judgment or with the exception.
JudgeLeave(t) ==
    /\ th[t].pc \in {"done", "raised"}
    /\ th' = [th EXCEPT ![t] = IdleThread]
    /\ UNCHANGED <<cache, origin, now, ticks, pc, cm, last, cache2, db, created, state>>

\* The two HybridRelevanceChecker objects of one process: the one that
\* Nodes.__init__ creates and the one that AnswerGenerator.__init__ creates.
Checkers == {"llm_judge", "llm_judge_second"}

\* A call of llm_judge(query, answer) of one of the two checkers, each with
\* the self._judgment_cache its __init__ created.
LlmJudgeCallOn(checker) ==
    /\ pc = "idle"
    /\ \E p \in ConcPairs, resp \in ConcResponses :
        LET r == llm_judge(IF checker = "llm_judge" THEN cache ELSE cache2,
                           now, p[1], p[2], resp)
        IN
            /\ IF checker = "llm_judge"
               THEN /\ cache' = r.cache
                    /\ origin' = OriginAfter(origin, r, p[1], p[2])
                    /\ cache2' = cache2
               ELSE /\ cache2' = r.cache
                    /\ UNCHANGED <<cache, origin>>
            /\ last' = [op |-> checker, query |-> p[1], answer |-> p[2],
                        t |-> now, resp |-> IF r.invoked THEN resp ELSE NotInvoked,
                        ret |-> r.ret,
                        invoked |-> r.invoked]
            /\ UNCHANGED <<now, ticks, pc, cm, th, db, created, state>>

\* init_db(): the table is created in the database the engine is bound to.
InitDb ==
    /\ db.engine = "none"
    /\ \E engine \in Engines : db' = [db EXCEPT !.engine = engine]
    /\ UNCHANGED <<cache, origin, now, ticks, pc, cm, last, th, cache2, created, state>>

\* A call of UserMemoryManager.create_memory(name, description).
CreateMemory ==
    /\ db.engine # "none"
    /\ Len(created) < MaxCreates
    /\ \E name \in Names, description \in Descriptions :
        LET r == create_memory(db, name, description)
        IN
            /\ db' = r.db
            /\ created' = CreatedAfterCreate(created, r.ret)
            /\ last' = [op |-> "create_memory", id |-> 0, name |-> name,
                        description |-> description, before |-> db.rows, ret |-> r.ret]
    /\ UNCHANGED <<cache, origin, now, ticks, pc, cm, th, cache2, state>>

\* A call of UserMemoryManager.get_memory(memory_id).
GetMemory ==
    /\ db.engine # "none"
    /\ \E memory_id \in MemoryIds :
            last' = [op |-> "get_memory", id |-> memory_id, name |-> PyNone,
                     description |-> PyNone, before |-> db.rows,
                     ret |-> get_memory(db, memory_id)]
    /\ UNCHANGED <<cache, origin, now, ticks, pc, cm, th, cache2, db, created, state>>

\* A call of UserMemoryManager.update_memory(memory_id, name, description).
UpdateMemory ==
    /\ db.engine # "none"
    /\ \E memory_id \in MemoryIds, name \in Names, description \in Descriptions :
        LET r == update_memory(db, memory_id, name, description)
        IN
            /\ db' = r.db
            /\ created' = CreatedAfterChange(created, memory_id, FALSE)
            /\ last' = [op |-> "update_memory", id |-> memory_id, name |-> name,
                        description |-> description, before |-> db.rows, ret |-> r.ret]
    /\ UNCHANGED <<cache, origin, now, ticks, pc, cm, th, cache2, state>>

\* A call of UserMemoryManager.delete_memory(memory_id).
DeleteMemory ==
    /\ db.engine # "none"
    /\ \E memory_id \in MemoryIds :
        LET r == delete_memory(db, memory_id)
        IN
            /\ db' = r.db
            /\ created' = CreatedAfterChange(created, memory_id, TRUE)
            /\ last' = [op |-> "delete_memory", id |-> memory_id, name |-> PyNone,
                        description |-> PyNone, before |-> db.rows, ret |-> r.ret]
    /\ UNCHANGED <<cache, origin, now, ticks, pc, cm, th, cache2, state>>

\* A call of WorkFlow.process_message(state, message).
ProcessMessage ==
    /\ state.turns < MaxTurns
    /\ \E message \in ChatInputs, relevance_result \in ChatRelevance,
          gresp \in GenerateResponses :
            /\ state' = process_message(state, message, relevance_result, gresp)
            /\ last' = [op |-> "process_message", message |-> message, before |-> state]
    /\ UNCHANGED <<cache, origin, now, ticks, pc, cm, th, cache2, db, created>>

\* The final_state node: _final_state_wrapper(state).
FinalState ==
    /\ state' = finalize_state(state)
    /\ UNCHANGED <<cache, origin, now, ticks, pc, cm, last, th, cache2, db, created>>

NextJudge == Tick \/ LlmJudgeCall

NextMemory == InitDb \/ CreateMemory \/ GetMemory \/ UpdateMemory \/ DeleteMemory

NextInstances == Tick \/ \E checker \in Checkers : LlmJudgeCallOn(checker)

NextConc ==
    \/ Tick
    \/ \E t \in Threads :
            \/ JudgeEnter(t)
            \/ JudgeScan(t)
            \/ JudgePurge(t)
            \/ JudgeLookup(t)
            \/ JudgeHit(t)
            \/ JudgeCallModel(t)
            \/ JudgeLeave(t)

NextStructure == StructureQueryCall

NextChat == ProcessMessage \/ FinalState

Next ==
    \/ CheckMatchCall
    \/ GenerateCall
    \/ EvalCandidate
    \/ EvalCandidateFails
    \/ CheckMatchReturn
    \/ GenerateAnswer

\* One resolution by a fresh checker: check_match or generate, step by step.
Spec == Init /\ [][Next]_vars

\* llm_judge called directly, with the clock advancing between calls.
SpecJudge == Init /\ [][NextJudge]_vars

\* Threads calling llm_judge of the same checker, their steps interleaved.
SpecConc == Init /\ [][NextConc]_vars

\* Two HybridRelevanceChecker objects of one process, each called directly.
SpecInstances == Init /\ [][NextInstances]_vars

\* The four operations of UserMemoryManager on one database.
SpecMemory == Init /\ [][NextMemory]_vars

\* _structure_query called directly on a range of query texts.
SpecStructure == Init /\ [][NextStructure]_vars

\* A conversation: process_message called turn after turn on one state.
SpecChat == Init /\ [][NextChat]_vars

----------------------------------------------------------------------------
(* Properties of llm_judge, checked under SpecJudge *)

\* A step that is a second llm_judge call for the pair of the call before it,
\* that call having invoked the model no more than cache_ttl seconds earlier.
RepeatWithinTTL ==
    /\ last.op = "llm_judge" /\ last'.op = "llm_judge"
    /\ last' # last
    /\ last'.query = last.query /\ last'.answer = last.answer
    /\ last.invoked
    /\ last'.t - last.t <= cache_ttl

\* C3: a repeated llm_judge call with the identical (query, answer) pair within
\* 3600 seconds of the first call returns the first call's judgment without a
\* second invocation of the model.
C3_RepeatServedFromCache ==
    [][RepeatWithinTTL => (~last'.invoked /\ last'.ret = last.ret)]_vars

\* C4: when llm_judge fails for a pair, the fallback judgment is stored in the
\* cache, so that a second call for the pair within the TTL returns the
\* fallback without invoking the model again.
C4_FallbackIsCached ==
    [][(RepeatWithinTTL /\ JudgeRaises(last.resp))
        => (~last'.invoked /\ last'.ret = FallbackJudgment)]_vars

\* The judge step failed: the call raised, the text is no JSON, or the object
\* lacks one of the required fields (or its confidence is no number).
JudgeStepFailed(resp) ==
    \/ resp.kind \in {"raise", "text"}
    \/ resp.judgment = "absent"
    \/ resp.confidence.tag \in {"absent", "str"}
    \/ resp.reason = "absent"

\* C5: on any failure of the judge step llm_judge returns the fallback
\* (irrelevant, 0.0), and every judgment it returns has a judgment field
\* whose value is relevant or irrelevant.
C5_FailureGivesFallback ==
    last.op = "llm_judge" =>
        /\ (last.invoked /\ JudgeStepFailed(last.resp)) =>
                (last.ret.judgment = "irrelevant" /\ last.ret.confidence = 0)
        /\ last.ret.judgment \in {"relevant", "irrelevant"}

\* C6: a judgment computed and cached for (q1, a1) is never returned by
\* llm_judge(q2, a2) when (q1, a1) # (q2, a2).
C6_CacheKeyedByPair ==
    (last.op = "llm_judge" /\ ~last.invoked) => last.src = <<last.query, last.answer>>

\* C7: every judgment llm_judge returns, fresh, cached or fallback, has a
\* confidence in [0,1]; a raw value below 0 comes back as 0.0, one above 1 as
\* 1.0, one in range unchanged.  Every cached judgment is in range as well.
C7_ConfidenceClamped ==
    /\ \A k \in DOMAIN cache : cache[k].judgment.confidence \in 0..100
    /\ last.op = "llm_judge" =>
        /\ last.ret.confidence \in 0..100
        /\ (last.invoked /\ ~JudgeRaises(last.resp) /\ last.resp.confidence.tag = "num") =>
            LET raw == last.resp.confidence.v
            IN  /\ raw < 0 => last.ret.confidence = 0
                /\ raw > 100 => last.ret.confidence = 100
                /\ raw \in 0..100 => last.ret.confidence = raw

\* C7 witness: the model gave a confidence of 1.7 and llm_judge returned 1.0.
C7_Witness ==
    /\ last.op = "llm_judge" /\ last.invoked
    /\ last.resp.confidence = Num(170) /\ last.ret.confidence = 100

----------------------------------------------------------------------------
(* Properties of check_match and generate, checked under Spec *)

\* A check_match call has returned, directly or inside generate.
HasCheck == last.op \in {"check_match", "generate"}

\* The record of that check_match call.
LastCheck == IF last.op = "generate" THEN last.check ELSE last

\* C1: whatever the collaborators do, neither check_match nor generate
\* raises, and generate returns a record with answer, source and confidence.
C1_NeverRaises ==
    /\ HasCheck => LastCheck.ret.status \in {"relevant", "partial", "no_match"}
    /\ last.op = "generate" =>
        /\ last.ret.source \in {"verified_answer", "llm_generated", "error"}
        /\ last.ret.answer.kind \in {"kb", "llm", "apology"}
        /\ last.ret.confidence \in 0..1000

\* C1 witness: a generate call in which one candidate's similarity raised,
\* the classification raised on a judgment without a verdict, and the
\* fallback generation raised as well.
C1_Witness ==
    /\ last.op = "generate"
    /\ \E i \in DOMAIN last.check.evals : ~last.check.evals[i].ok
    /\ last.check.best_eval.some
    /\ ClassifyRaises(last.check.best_eval)
    /\ last.gresp = "raise"
    /\ last.ret.source = "error"

\* C2: the status is decided by the best evaluated candidate alone: relevant
\* iff its verdict is relevant with confidence >= 0.7, otherwise partial iff
\* its combined_score >= 0.6, otherwise no_match.
C2_StatusFromBest ==
    (HasCheck /\ LastCheck.best_eval.some) =>
        LET best == LastCheck.best_eval
            accepted == /\ best.llm_judge.judgment = "relevant"
                        /\ best.llm_judge.confidence >= judge_threshold
        IN  LastCheck.ret.status =
                IF accepted THEN "relevant"
                ELSE IF best.combined_score >= partial_threshold THEN "partial"
                ELSE "no_match"

\* C8: match_data is None whenever the status is no_match, and present
\* exactly when the status is relevant or partial.
C8_MatchDataIffMatch ==
    HasCheck =>
        (LastCheck.ret.match_data.present <=> LastCheck.ret.status \in {"relevant", "partial"})

\* C9: an empty search result gives no_match with no candidate evaluated,
\* and generate then returns llm_generated with confidence 0.5 when the
\* generative call succeeds, error when it raises.
C9_EmptySearch ==
    (HasCheck /\ LastCheck.search_results = <<>>) =>
        /\ LastCheck.ret = NoMatch
        /\ LastCheck.evals = <<>>
        /\ last.op = "generate" =>
            /\ last.gresp = "text" =>
                  (last.ret.source = "llm_generated" /\ last.ret.confidence = confidence_cold)
            /\ last.gresp = "raise" => last.ret.source = "error"

\* C9 witness: generate answered from the model after an empty search.
C9_Witness ==
    /\ last.op = "generate"
    /\ last.check.search_results = <<>>
    /\ last.ret.source = "llm_generated"

\* best_eval is the first of the successfully evaluated candidates that has
\* the maximum combined_score; there is none when none was evaluated.
FirstMaximum(evals, rag_results, best_eval) ==
    LET ok == { i \in DOMAIN evals : evals[i].ok }
    IN  IF ok = {}
        THEN ~best_eval.some
        ELSE LET m == CHOOSE i \in ok :
                        /\ \A j \in ok : evals[j].score <= evals[i].score
                        /\ \A j \in ok : j < i => evals[j].score < evals[i].score
             IN  /\ best_eval.some
                 /\ best_eval.combined_score = evals[m].score
                 /\ best_eval.candidate = rag_results[m]
                 /\ best_eval.llm_judge = evals[m].judgment

\* C10: among the successfully evaluated candidates check_match selects one
\* with the maximum combined_score, the first in search order on a tie: after
\* every pass of the loop and when it returns.
C10_FirstMaximumSelected ==
    /\ pc \in {"loop", "answer"} => FirstMaximum(cm.evals, cm.rag_results, cm.best_eval)
    /\ HasCheck =>
          FirstMaximum(LastCheck.evals, LastCheck.rag_results, LastCheck.best_eval)

\* C10 witness: two different candidates tie at the maximum and the first
\* one is the selected one.
C10_Witness ==
    /\ last.op = "check_match"
    /\ Len(last.evals) = 2
    /\ last.evals[1].ok /\ last.evals[2].ok
    /\ last.evals[1].score = last.evals[2].score
    /\ last.rag_results[1] # last.rag_results[2]
    /\ last.best_eval.candidate = last.rag_results[1]

\* The text contains the phrase in some letter case.
ContainsAnyCase(str, phrase) == \E i \in DOMAIN str : Lower(str[i]) = Lower(phrase)

\* The text before the first occurrence of the phrase in some letter case.
BeforeAnyCase(str, phrase) ==
    LET first == CHOOSE i \in DOMAIN str :
                    /\ Lower(str[i]) = Lower(phrase)
                    /\ \A j \in 1..(i - 1) : Lower(str[j]) # Lower(phrase)
    IN  SubSeq(str, 1, first - 1)

\* The two phrases of the fallback heuristic.
HeuristicPhrases == { "like I'm 5", "explain to a child" }

\* C11: when the structuring call raises or its response is not valid JSON,
\* a query that contains "like I'm 5" or "explain to a child" in any letter
\* case gives the structure child-friendly / child with the filters
\* simplified_language and avoid_technical_terms and, as main_topic, the text
\* of the query before that phrase; any other query gives the default
\* structure (main_topic the query, standard, general).
C11_HeuristicFallback ==
    (last.op = "structure_query" /\ last.sresp.kind \in {"raise", "text"}) =>
        LET present == { p \in HeuristicPhrases : ContainsAnyCase(last.query, p) }
        IN  IF present # {}
            THEN /\ last.ret.explanation_level = "child-friendly"
                 /\ last.ret.target_audience = "child"
                 /\ last.ret.filters = ChildFilters
                 /\ \E p \in present : last.ret.main_topic = BeforeAnyCase(last.query, p)
            ELSE last.ret = QueryStructure(last.query, "standard", "general", NoFilters)

----------------------------------------------------------------------------
(* Properties of the child-friendly filter and of generate, checked under Spec *)

\* The answer text contains one of the four marker phrases, in any letter case.
AnswerHasMarker(answer) ==
    \E i \in DOMAIN answer :
        Lower(answer[i]) \in { "simple", "easy to understand", "like a", "similar to" }

\* C12: when the explanation level is child-friendly, only the candidates
\* whose answer contains a marker phrase are evaluated; when no candidate has
\* one, check_match returns no_match and no judge call is made.
C12_ChildFriendlyFilter ==
    /\ (pc = "loop" /\ cm.structure.explanation_level = "child-friendly") =>
            cm.rag_results =
                SelectSeq(cm.search_results, LAMBDA r : AnswerHasMarker(r.answer))
    /\ (HasCheck /\ LastCheck.structure.explanation_level = "child-friendly") =>
        /\ Len(LastCheck.evals) <= Len(LastCheck.rag_results)
        /\ \A i \in DOMAIN LastCheck.evals :
                AnswerHasMarker(LastCheck.rag_results[i].answer)
        /\ (\A i \in DOMAIN LastCheck.search_results :
                ~AnswerHasMarker(LastCheck.search_results[i].answer)) =>
                    /\ LastCheck.ret = NoMatch
                    /\ LastCheck.evals = <<>>

\* C12 witness: a child-friendly check_match whose search gave two candidates,
\* neither with a marker phrase, returned no_match without evaluating any.
C12_Witness ==
    /\ HasCheck
    /\ LastCheck.structure.explanation_level = "child-friendly"
    /\ Len(LastCheck.search_results) = 2
    /\ \A i \in DOMAIN LastCheck.search_results :
            ~AnswerHasMarker(LastCheck.search_results[i].answer)
    /\ LastCheck.ret = NoMatch
    /\ LastCheck.evals = <<>>

\* C13: when the resolver's status is relevant, generate returns the winning
\* candidate's stored answer verbatim with source verified_answer, the
\* resolver's combined score as confidence and the resolver's metrics, and
\* the fallback generative model is not invoked.
C13_VerifiedAnswer ==
    (last.op = "generate" /\ last.check.ret.status = "relevant") =>
        /\ last.check.best_eval.some
        /\ last.ret.answer = [kind |-> "kb", text |-> last.check.best_eval.candidate.answer]
        /\ last.ret.source = "verified_answer"
        /\ last.ret.confidence = last.check.best_eval.combined_score
        /\ last.ret.has_metrics
        /\ last.ret.metrics = [llm_judge |-> last.check.best_eval.llm_judge,
                               similarity |-> last.check.best_eval.similarity]
        /\ ~last.ret.invoked

\* C13 witness: generate returned the verified answer of the second of two
\* candidates, the model for the fallback answer being down.
C13_Witness ==
    /\ last.op = "generate"
    /\ last.check.ret.status = "relevant"
    /\ Len(last.check.rag_results) = 2
    /\ last.check.best_eval.candidate = last.check.rag_results[2]
    /\ last.check.best_eval.candidate # last.check.rag_results[1]
    /\ last.gresp = "raise"
    /\ last.ret.source = "verified_answer"

\* The positions of the context message among the messages sent to the model.
ContextPositions(messages) == { i \in DOMAIN messages : messages[i].role = "context" }

\* C14: when the status is not relevant and the generative call succeeds,
\* generate returns source llm_generated; the best candidate's answer is sent
\* as a context message, placed before the user's question, if and only if
\* the status is partial; the confidence is 0.7 exactly when the context was
\* sent and 0.5 otherwise.
C14_GeneratedAnswer ==
    (last.op = "generate" /\ last.check.ret.status # "relevant" /\ last.gresp = "text") =>
        /\ last.ret.source = "llm_generated"
        /\ last.ret.invoked
        /\ (ContextPositions(last.messages) # {}) <=> (last.check.ret.status = "partial")
        /\ \A i \in ContextPositions(last.messages) :
                /\ last.messages[i].text = last.check.best_eval.candidate.answer
                /\ \A j \in DOMAIN last.messages :
                        last.messages[j].role = "human" => i < j
        /\ \E j \in DOMAIN last.messages :
                last.messages[j] = [role |-> "human", text |-> last.query]
        /\ last.ret.confidence = IF ContextPositions(last.messages) # {}
                                 THEN confidence_with_context ELSE confidence_cold

\* C14 witness: a partial match whose answer went to the model as context,
\* the generated answer coming back with confidence 0.7.
C14_Witness ==
    /\ last.op = "generate"
    /\ last.check.ret.status = "partial"
    /\ last.gresp = "text"
    /\ ContextPositions(last.messages) = {2}
    /\ last.ret.source = "llm_generated"
    /\ last.ret.confidence = confidence_with_context

\* C15: generate returns source error, with confidence 0.0 and the fixed
\* apology, if and only if the fallback generative call was attempted and
\* raised; failures of the structurer, the search, the embedding or the judge
\* never produce source error.
C15_ErrorOnlyFromGeneration ==
    last.op = "generate" =>
        /\ (last.ret.source = "error") <=>
                (last.check.ret.status # "relevant" /\ last.gresp = "raise")
        /\ last.ret.source = "error" =>
                /\ last.ret.invoked
                /\ last.ret.confidence = confidence_error
                /\ last.ret.answer = [kind |-> "apology", text |-> <<>>]
        /\ (last.gresp = "text" /\ last.check.ret.status # "relevant") =>
                last.ret.source = "llm_generated"

\* C15 witness: the error record, returned after a check_match in which one
\* candidate's evaluation raised and the judge call of the other raised.
C15_Witness ==
    /\ last.op = "generate"
    /\ last.ret.source = "error"
    /\ last.gresp = "raise"
    /\ Len(last.check.evals) = 2
    /\ ~last.check.evals[1].ok
    /\ last.check.evals[2].ok /\ last.check.evals[2].judgment = FallbackJudgment

----------------------------------------------------------------------------
(* Properties of concurrent llm_judge calls, checked under SpecConc *)

\* C16: under any interleaving of concurrent llm_judge calls on the same
\* cache, the purge, the lookup and the insert behave as a critical section:
\* no entry that is still within its TTL is lost because of another call's
\* purge, and no call raises because another call modified the cache in the
\* middle of its purge.
C16_CriticalSection ==
    [][/\ \A k \in DOMAIN cache :
            (now - cache[k].timestamp <= cache_ttl) => k \in DOMAIN cache'
       /\ \A t \in Threads : th'[t].pc # "raised"]_vars

----------------------------------------------------------------------------
(* Properties of two checkers in one process, checked under SpecInstances *)

\* A call through one checker computed and stored a judgment, and the next
\* call is for the same pair, through the other checker, within the TTL.
RepeatThroughOtherChecker ==
    /\ last.op \in Checkers
    /\ last'.op \in Checkers
    /\ last'.op # last.op
    /\ last'.query = last.query /\ last'.answer = last.answer
    /\ last.invoked /\ ~JudgeRaises(last.resp)
    /\ last'.t - last.t <= cache_ttl

\* C17: the judgment cache is process-wide: a judgment computed through one
\* HybridRelevanceChecker is a hit, within the TTL, for the same pair when it
\* is asked through any other HybridRelevanceChecker of the same process.
C17_CacheProcessWide ==
    [][RepeatThroughOtherChecker => (~last'.invoked /\ last'.ret = last.ret)]_vars

----------------------------------------------------------------------------
(* Properties of UserMemoryManager, checked under SpecMemory *)

\* create_memory returned a record with the name and description it was
\* given, and get_memory returns the record that create_memory returned for
\* an id to which no update_memory or delete_memory was applied since.
GetReturnsCreated ==
    /\ last.op = "create_memory" =>
            /\ last.ret.name = last.name
            /\ last.ret.description = last.description
    /\ last.op = "get_memory" =>
            \A i \in DOMAIN created :
                (created[i].intact /\ created[i].ret.id = last.id) =>
                    last.ret = created[i].ret

C19_Delete ==
    /\ last.op = "delete_memory" =>
            IF last.id \in DOMAIN last.before
            THEN /\ last.ret = TRUE
                 /\ DOMAIN db.rows = DOMAIN last.before \ {last.id}
                 /\ \A i \in DOMAIN db.rows : db.rows[i] = last.before[i]
            ELSE /\ last.ret = FALSE
                 /\ db.rows = last.before
    /\ (last.op = "get_memory" /\ last.id \notin DOMAIN last.before) =>
            last.ret = NoRecord

\* C19 witness: the second delete_memory of a record that was created and
\* deleted returned False, another record being stored and left as it was.
C19_Witness ==
    /\ last.op = "delete_memory"
    /\ last.ret = FALSE
    /\ \E i \in DOMAIN created : created[i].ret.id = last.id /\ ~created[i].stored
    /\ db.rows # <<>>
    /\ db.rows = last.before

\* C20: update_memory(id, name, description) on an existing memory sets
\* exactly the fields whose argument is not None, leaves the other field,
\* the id and every other memory unchanged, and returns the updated record;
\* on an id that does not exist it returns None and changes nothing.
C20_Update ==
    last.op = "update_memory" =>
        IF last.id \in DOMAIN last.before
        THEN /\ DOMAIN db.rows = DOMAIN last.before
             /\ \A i \in DOMAIN db.rows \ {last.id} : db.rows[i] = last.before[i]
             /\ db.rows[last.id].name =
                    IF last.name # PyNone THEN last.name ELSE last.before[last.id].name
             /\ db.rows[last.id].description =
                    IF last.description # PyNone THEN last.description
                    ELSE last.before[last.id].description
             /\ last.ret = [id |-> last.id, name |-> db.rows[last.id].name,
                            description |-> db.rows[last.id].description]
        ELSE /\ last.ret = NoRecord
             /\ db.rows = last.before

\* C20 witness: update_memory with None as name and the empty string as
\* description kept the name and changed the description, another record
\* being stored.
C20_Witness ==
    /\ last.op = "update_memory"
    /\ last.id \in DOMAIN last.before
    /\ last.name = PyNone /\ last.description = ""
    /\ last.before[last.id] = Row("Ali", PyNone)
    /\ db.rows[last.id] = Row("Ali", "")
    /\ Cardinality(DOMAIN db.rows) = 2

----------------------------------------------------------------------------
(* Further properties of check_match and generate, checked under Spec *)

\* The evaluation of a candidate went through: nothing raised in its pass of
\* the loop, the judge step did not fail, and its judgment has a verdict to
\* classify.
EvalSucceeded(ev) ==
    /\ ev.ok
    /\ ev.judgment # FallbackJudgment
    /\ ev.judgment.judgment # "absent"

\* The positions of the candidates whose evaluation went through.
Succeeded(c) == { i \in DOMAIN c.evals : EvalSucceeded(c.evals[i]) }

\* The evaluation record of position i, from the call record.
EvalAt(c, i) ==
    Evaluation(c.rag_results[i], c.evals[i].judgment,
               (c.evals[i].score - c.evals[i].judgment.confidence * weight_llm_judge)
                    \div weight_similarity)

\* What check_match returns for the candidates whose evaluation went
\* through, the others left out of the list.
ResultWithoutFailures(c) ==
    IF Succeeded(c) = {}
    THEN NoMatch
    ELSE LET best == CHOOSE i \in Succeeded(c) :
                        /\ \A j \in Succeeded(c) : c.evals[j].score <= c.evals[i].score
                        /\ \A j \in Succeeded(c) : j < i => c.evals[j].score < c.evals[i].score
         IN  [status |-> Classify(EvalAt(c, best)), match_data |-> MatchData(EvalAt(c, best))]

\* C21: a failure while evaluating one candidate (its similarity, its judge
\* computation, a use of its judgment) excludes only that candidate: the
\* result of check_match is the one it would return for the list without the
\* failing candidates, and it is no_match only if no candidate was evaluated
\* successfully or the best remaining one is below both thresholds.
C21_FailureExcludesCandidate ==
    HasCheck =>
        /\ LastCheck.ret = ResultWithoutFailures(LastCheck)
        /\ LastCheck.ret.status = "no_match" =>
                \/ Succeeded(LastCheck) = {}
                \/ ResultWithoutFailures(LastCheck).status = "no_match"

----------------------------------------------------------------------------
(* Further properties of llm_judge, checked under SpecJudge *)

\* The step is a call of llm_judge.
LlmJudgeStep == last'.op = "llm_judge" /\ (last' # last \/ cache' # cache)

\* C22: a cached judgment is served exactly while now - t <= 3600, t being
\* the time of the call that computed it: every call first removes the
\* entries with now - t > 3600, so that right after a call the cache holds no
\* older entry; an entry of age exactly 3600 is still a hit; a hit does not
\* refresh t, and no entry within the TTL is removed.
C22_ServedWithinTTL ==
    [][LlmJudgeStep =>
        LET key == CacheKey(last'.query, last'.answer)
            fresh == { k \in DOMAIN cache : now - cache[k].timestamp <= cache_ttl }
        IN  /\ ~last'.invoked <=> key \in fresh
            /\ ~last'.invoked => last'.ret = cache[key].judgment
            /\ \A k \in DOMAIN cache' : now - cache'[k].timestamp <= cache_ttl
            /\ \A k \in fresh : k \in DOMAIN cache' /\ cache'[k] = cache[k]
            /\ \A k \in DOMAIN cache' \ fresh : k = key /\ cache'[k].timestamp = now
      ]_vars

\* C22 witness: a hit on an entry of age exactly 3600, its time unchanged.
C22_Witness ==
    /\ last.op = "llm_judge"
    /\ ~last.invoked
    /\ CacheKey(last.query, last.answer) \in DOMAIN cache
    /\ last.t - cache[CacheKey(last.query, last.answer)].timestamp = cache_ttl

----------------------------------------------------------------------------
(* Properties of scoring, classification and call counts, checked under Spec *)

\* C23: for every evaluated candidate combined_score is judge confidence *
\* 0.5 + similarity * 0.3, with nothing from the entailment weight, and the
\* confidence in match_data is the combined_score of the winning candidate.
\* Similarity 0.9 with judge {relevant, 0.85} gives 0.695, status relevant
\* and source verified_answer; similarity 0.5 with judge {irrelevant, 0.4}
\* gives 0.35, status no_match and an llm_generated answer of confidence 0.5.
C23_CombinedScore ==
    /\ pc \in {"loop", "answer"} =>
            \A i \in DOMAIN cm.evals :
                cm.evals[i].ok =>
                    \E similarity \in Similarities :
                        cm.evals[i].score =
                            cm.evals[i].judgment.confidence * 5 + similarity * 3
    /\ (HasCheck /\ LastCheck.ret.match_data.present) =>
            /\ LastCheck.best_eval.combined_score =
                    LastCheck.best_eval.llm_judge.confidence * 5
                        + LastCheck.best_eval.similarity * 3
            /\ LastCheck.ret.match_data.confidence = LastCheck.best_eval.combined_score
    /\ (last.op = "generate" /\ Len(last.check.rag_results) = 1
            /\ last.check.best_eval.some) =>
            /\ (/\ last.check.best_eval.similarity = 90
                /\ last.check.best_eval.llm_judge.judgment = "relevant"
                /\ last.check.best_eval.llm_judge.confidence = 85) =>
                    /\ last.check.best_eval.combined_score = 695
                    /\ last.check.ret.status = "relevant"
                    /\ last.ret.source = "verified_answer"
                    /\ last.ret.confidence = 695
            /\ (/\ last.check.best_eval.similarity = 50
                /\ last.check.best_eval.llm_judge.judgment = "irrelevant"
                /\ last.check.best_eval.llm_judge.confidence = 40
                /\ last.gresp = "text") =>
                    /\ last.check.best_eval.combined_score = 350
                    /\ last.check.ret.status = "no_match"
                    /\ last.ret.source = "llm_generated"
                    /\ last.ret.confidence = 500

\* C23 witness: the first scenario, similarity 0.9 and judge {relevant, 0.85}.
C23_Witness ==
    /\ last.op = "generate"
    /\ Len(last.check.rag_results) = 1
    /\ last.check.best_eval.some
    /\ last.check.best_eval.similarity = 90
    /\ last.check.best_eval.llm_judge = [judgment |-> "relevant", confidence |-> 85, reason |-> "r"]
    /\ last.ret.source = "verified_answer"
    /\ last.ret.confidence = 695

\* C24: there is no retry: during one generate call the search is called at
\* most once, the generative model is invoked at most once for structuring,
\* at most once per retrieved candidate for judging (at most 5 times, and not
\* at all for a candidate whose pair is cached) and at most once for the
\* fallback answer, whichever of these calls fail.
C24_NoRetry ==
    /\ pc \in {"loop", "answer"} =>
            /\ cm.calls.structure <= 1
            /\ cm.calls.search <= 1
            /\ cm.calls.judge <= Len(cm.evals)
    /\ HasCheck =>
            /\ LastCheck.calls.structure <= 1
            /\ LastCheck.calls.search <= 1
            /\ LastCheck.calls.judge <= Len(LastCheck.search_results)
            /\ LastCheck.calls.judge <= 5
            /\ LastCheck.calls.judge =
                    Cardinality({ i \in DOMAIN LastCheck.evals : LastCheck.evals[i].invoked })
            /\ \A i \in DOMAIN LastCheck.evals :
                    (/\ LastCheck.evals[i].ok
                     /\ \E j \in 1..(i - 1) :
                            /\ LastCheck.evals[j].ok
                            /\ LastCheck.evals[j].judgment # FallbackJudgment
                            /\ LastCheck.rag_results[j].answer = LastCheck.rag_results[i].answer)
                        => ~LastCheck.evals[i].invoked
    /\ last.op = "generate" =>
            /\ last.generate_calls <= 1
            /\ last.check.ret.status = "relevant" => last.generate_calls = 0

\* C24 witness: a generate call in which the judge call failed for the first
\* candidate and was made again, once, for the same answer as second
\* candidate, and the fallback call failed: two judge calls, one of each
\* other.
C24_Witness ==
    /\ last.op = "generate"
    /\ last.gresp = "raise"
    /\ Len(last.check.evals) = 2
    /\ last.check.rag_results[1] = last.check.rag_results[2]
    /\ last.check.evals[1].judgment = FallbackJudgment
    /\ last.check.evals[1].invoked /\ last.check.evals[2].invoked
    /\ last.check.calls = [structure |-> 1, search |-> 1, judge |-> 2]
    /\ last.generate_calls = 1

\* The positions of the evaluated candidates whose answer is the given text
\* and whose judgment, fresh or cached, is relevant with confidence >= 0.7.
AcceptedPositions(c, text) ==
    { i \in DOMAIN c.evals :
        /\ c.evals[i].ok
        /\ c.rag_results[i].answer = text
        /\ \E j \in DOMAIN c.search_results : c.search_results[j] = c.rag_results[i]
        /\ c.evals[i].judgment.judgment = "relevant"
        /\ c.evals[i].judgment.confidence >= 70 }

\* C26: whenever generate returns source verified_answer, the answer is the
\* answer text of a candidate the search returned during this call, and the
\* judgment used for that candidate, fresh or cached, is relevant with
\* confidence >= 0.7; an answer of the generative model is never labelled
\* verified_answer.
C26_VerifiedIsAccepted ==
    last.op = "generate" =>
        /\ last.ret.source = "verified_answer" =>
                /\ last.ret.answer.kind = "kb"
                /\ AcceptedPositions(last.check, last.ret.answer.text) # {}
                /\ last.check.best_eval.some
                /\ last.check.best_eval.candidate.answer = last.ret.answer.text
                /\ last.check.best_eval.llm_judge.judgment = "relevant"
                /\ last.check.best_eval.llm_judge.confidence >= 70
        /\ last.ret.invoked => last.ret.source # "verified_answer"
        /\ last.ret.answer.kind # "kb" => last.ret.source # "verified_answer"

\* C26 witness: generate returned a verified answer on a judgment served
\* from the cache, the pair having been judged earlier in the same call.
C26_Witness ==
    /\ last.op = "generate"
    /\ last.ret.source = "verified_answer"
    /\ Len(last.check.rag_results) = 2
    /\ last.check.evals[1].invoked
    /\ ~last.check.evals[2].invoked
    /\ last.check.evals[2].ok
    /\ last.check.best_eval.candidate = last.check.rag_results[2]
    /\ last.check.best_eval.llm_judge.confidence = 85

\* The judgment is relevant with confidence >= 0.7.
JudgedRelevant(judgment) == judgment.judgment = "relevant" /\ judgment.confidence >= 70

\* The positions of the candidates that were scored, judged relevant with
\* confidence >= 0.7, and have a lower combined_score than the winner.
RelevantButLower(c) ==
    { i \in DOMAIN c.evals :
        /\ c.evals[i].ok
        /\ JudgedRelevant(c.evals[i].judgment)
        /\ c.evals[i].score < c.best_eval.combined_score }

\* C27: the winning candidate is chosen by combined_score alone, before and
\* independently of the verdict: it is the first of the scored candidates
\* with the maximum combined_score; check_match returns relevant only if
\* this candidate itself is judged relevant with confidence >= 0.7, so a
\* candidate judged relevant with confidence >= 0.7 but with a lower
\* combined_score than the winner never makes the status relevant: the
\* status is then partial or no_match by the winner's combined_score.
C27_WinnerByScoreAlone ==
    HasCheck =>
        /\ LastCheck.best_eval.some =>
                /\ \A i \in DOMAIN LastCheck.evals :
                        LastCheck.evals[i].ok =>
                            LastCheck.evals[i].score <= LastCheck.best_eval.combined_score
                /\ \E i \in DOMAIN LastCheck.evals :
                        /\ LastCheck.evals[i].ok
                        /\ LastCheck.evals[i].score = LastCheck.best_eval.combined_score
                        /\ LastCheck.rag_results[i] = LastCheck.best_eval.candidate
                        /\ LastCheck.evals[i].judgment = LastCheck.best_eval.llm_judge
                        /\ \A j \in 1..(i - 1) :
                                LastCheck.evals[j].ok =>
                                    LastCheck.evals[j].score < LastCheck.evals[i].score
        /\ LastCheck.ret.status = "relevant" =>
                /\ LastCheck.best_eval.some
                /\ JudgedRelevant(LastCheck.best_eval.llm_judge)
        /\ (/\ LastCheck.best_eval.some
            /\ ~JudgedRelevant(LastCheck.best_eval.llm_judge)
            /\ RelevantButLower(LastCheck) # {}) =>
                /\ LastCheck.ret.status \in {"partial", "no_match"}
                /\ LastCheck.ret.status = "partial" =>
                        LastCheck.best_eval.combined_score >= 600
                /\ LastCheck.best_eval.combined_score < 600 =>
                        LastCheck.ret.status = "no_match"

\* C27 witness: the first candidate, judged irrelevant, wins with 0.6 and
\* the second, judged relevant with confidence 0.7, scores 0.5: partial.
C27_Witness ==
    /\ HasCheck
    /\ Len(LastCheck.rag_results) = 2
    /\ LastCheck.evals[1].ok /\ LastCheck.evals[1].score = 600
    /\ LastCheck.evals[1].judgment.judgment = "irrelevant"
    /\ LastCheck.evals[2].ok /\ LastCheck.evals[2].score = 500
    /\ JudgedRelevant(LastCheck.evals[2].judgment)
    /\ LastCheck.best_eval.candidate = LastCheck.rag_results[1]
    /\ LastCheck.best_eval.candidate # LastCheck.rag_results[2]
    /\ LastCheck.ret.status = "partial"

\* C28: with judge confidence in [0, 1] and similarity in [-1, 1] every
\* combined_score lies in [-0.3, 0.8], so every successfully evaluated
\* candidate beats the initial best_score of -1; status partial implies that
\* the winner's judge confidence is >= 0.6 and that either its verdict is
\* not relevant, or its confidence is below 0.7 with similarity above 0.83:
\* the context generate sends on partial is an answer the judge did not
\* accept as relevant at the 0.7 threshold.
C28_ScoreRangeAndPartial ==
    /\ pc \in {"loop", "answer"} =>
            /\ \A i \in DOMAIN cm.evals :
                    cm.evals[i].ok =>
                        /\ cm.evals[i].judgment.confidence \in 0..100
                        /\ cm.evals[i].score >= 0 - 300
                        /\ cm.evals[i].score <= 800
                        /\ cm.evals[i].score > initial_best_score
            /\ (\E i \in DOMAIN cm.evals : cm.evals[i].ok) =>
                    /\ cm.best_eval.some
                    /\ cm.best_score = cm.best_eval.combined_score
                    /\ cm.best_score >= 0 - 300 /\ cm.best_score <= 800
    /\ (HasCheck /\ LastCheck.ret.status = "partial") =>
            /\ LastCheck.best_eval.some
            /\ LastCheck.best_eval.llm_judge.confidence >= 60
            /\ \/ LastCheck.best_eval.llm_judge.judgment # "relevant"
               \/ /\ LastCheck.best_eval.llm_judge.confidence < 70
                  /\ LastCheck.best_eval.similarity > 83
    /\ (last.op = "generate" /\ last.check.ret.status = "partial") =>
            /\ ~JudgedRelevant(last.check.best_eval.llm_judge)
            /\ ContextPositions(last.messages) # {}
            /\ \A i \in ContextPositions(last.messages) :
                    last.messages[i].text = last.check.best_eval.candidate.answer

\* C28 witness: generate on a partial match whose winner is judged relevant
\* with confidence 0.69 and has similarity 0.9, its answer sent as context.
C28_Witness ==
    /\ last.op = "generate"
    /\ last.check.ret.status = "partial"
    /\ last.check.best_eval.llm_judge = [judgment |-> "relevant", confidence |-> 69, reason |-> "r"]
    /\ last.check.best_eval.similarity = 90
    /\ last.check.best_eval.combined_score = 615
    /\ ContextPositions(last.messages) # {}
    /\ last.ret.source = "llm_generated"

----------------------------------------------------------------------------
(* Further properties of _structure_query, checked under SpecStructure *)

\* C25: when the structuring model's response is a valid JSON object in a
\* Markdown code fence, with the json tag or without a tag, _structure_query
\* strips the fence and returns the structure whose main_topic,
\* explanation_level, target_audience and filters are those of the JSON
\* object; the default structure for an empty response is returned only
\* when the response has no text besides the fence markers.
C25_FenceStripped ==
    last.op = "structure_query" =>
        /\ (last.sresp.kind = "json" /\ last.sresp.fence \in {"json", "plain"}) =>
                /\ last.ret.explanation_level =
                        (IF last.sresp.level = "absent" THEN "standard" ELSE last.sresp.level)
                /\ last.ret.target_audience =
                        (IF last.sresp.audience = "absent" THEN "general" ELSE last.sresp.audience)
                /\ last.ret.main_topic =
                        (IF last.sresp.has_topic THEN last.sresp.topic ELSE last.query)
                /\ last.ret.filters = last.sresp.filters
        /\ last.sresp.kind = "empty" =>
                last.ret = QueryStructure(last.query, "standard", "general", NoFilters)

----------------------------------------------------------------------------
(* Properties of the chat workflow, checked under SpecChat *)

\* The first sequence is the beginning of the second.
IsPrefix(short, long) ==
    /\ Len(short) <= Len(long)
    /\ \A i \in DOMAIN short : long[i] = short[i]

\* The messages that carry an answer computed by generate.
Answers(messages) == { i \in DOMAIN messages : messages[i].answer_of # 0 }

\* C29: across any sequence of process_message calls on one state the
\* message history only grows: every message that is in state['messages']
\* before a call is still there, in the same order, after the call, blank
\* messages and calls that hit an error included; and the AI message
\* appended for a turn is the answer computed for that turn's user message,
\* never the answer_result left over from an earlier turn.
C29_HistoryOnlyGrows ==
    last.op = "process_message" =>
        /\ IsPrefix(last.before.messages, state.messages)
        /\ \A i \in Answers(state.messages) :
                state.messages[i].at = state.turns =>
                    state.messages[i].answer_of = state.turns

\* A step that is a process_message call.
ProcessMessageStep == last'.op = "process_message" /\ state'.turns = state.turns + 1

\* The call appends no answer: the answers after it were there before it.
NoNewAnswer ==
    /\ Cardinality(Answers(state'.messages)) <= Cardinality(Answers(state.messages))
    /\ \A i \in Answers(state'.messages) : state'.messages[i].at < state'.turns

\* The user node ran generate for this turn and recorded a relevance check.
GenerateRan ==
    /\ state'.answer_result.some
    /\ state'.answer_result.turn = state'.turns
    /\ Len(state'.relevance_checks) = Len(state.relevance_checks) + 1

\* C30 as stated: error_state is sticky: no operation resets it, so once a
\* turn has set it, every later process_message call on that state returns
\* before the agent node appends an answer, the user node still running
\* generate and recording a relevance check in each of these calls.
C30_StickyGenerateEveryCall ==
    [][state.error_state =>
            /\ state'.error_state
            /\ ProcessMessageStep => (NoNewAnswer /\ GenerateRan)]_vars

\* C30: error_state is sticky: no operation resets it, so once a turn has
\* set it, every later process_message call on that state returns before
\* the agent node appends an answer; the user node still runs generate and
\* records a relevance check when the message is a text that is not blank,
\* and does neither when it is blank.
C30_StickyErrorState ==
    [][state.error_state =>
            /\ state'.error_state
            /\ ProcessMessageStep =>
                    /\ NoNewAnswer
                    /\ (last'.message.is_text /\ ~IsBlank(last'.message.text)) => GenerateRan
                    /\ (last'.message.is_text /\ IsBlank(last'.message.text)) =>
                            /\ state'.answer_result = state.answer_result
                            /\ state'.relevance_checks = state.relevance_checks]_vars

\* C30 witness: in a state whose error_state was set, a later call with a
\* text ran generate and recorded its relevance check, and no answer
\* followed the user's message.
C30_Witness ==
    /\ last.op = "process_message"
    /\ last.before.error_state
    /\ state.error_state
    /\ last.message = [is_text |-> TRUE, text |-> << "a" >>]
    /\ state.answer_result.some
    /\ state.answer_result.turn = state.turns
    /\ Len(state.relevance_checks) = Len(last.before.relevance_checks) + 1
    /\ state.messages[Len(state.messages)] = HumanMessage(<< "a" >>, state.turns)

====
